---- MODULE Spec2Model ----
(***************************************************************************)
(* Langscape: request lifecycle of the gateway-wired ContentAnalyzer and   *)
(* PlatformTester mounted by LangscapeApp, the APIClient gateway           *)
(* (src/lib/api.ts) and the stand-alone simulated PlatformTester.          *)
(*                                                                         *)
(* Text is a sequence of characters; an optional value (T | null |         *)
(* undefined) is <<>> when absent and <<v>> when present.  A number that   *)
(* the program keeps as a fraction is kept in tenths (average_score).      *)
(***************************************************************************)
EXTENDS Integers, Sequences, FiniteSets, TLC

\* ------------------------------------------------------------------ bounds

\* Requests (ids) issued in one run.
MaxSubmits == 2

\* Calls made directly on the exported apiClient that may be outstanding at once.
MaxDirectInFlight == 1

\* Longest result array the summary statistics are computed for.
MaxResults == 3

\* ------------------------------------------------------------- data model

Null == <<>>

Some(v) == <<v>>

\* What the user can type: nothing, white space only, text with white space around.
Texts == { <<>>, <<" ">>, <<" ", "x">> }

RECURSIVE TrimStart(_)
TrimStart(s) ==
    IF s = <<>> THEN s
    ELSE IF Head(s) = " " THEN TrimStart(Tail(s)) ELSE s

RECURSIVE TrimEnd(_)
TrimEnd(s) ==
    IF s = <<>> THEN s
    ELSE IF s[Len(s)] = " " THEN TrimEnd(SubSeq(s, 1, Len(s) - 1)) ELSE s

\* String.prototype.trim
Trim(s) == TrimEnd(TrimStart(s))

\* !s.trim() : the empty string is falsy
Blank(s) == Trim(s) = <<>>

\* The platform ids, in registry order.
Platforms == << "chatgpt", "claude", "perplexity", "google_ai" >>

PlatformIds == { Platforms[i] : i \in 1..Len(Platforms) }

\* The three root components / entry points of the repository; a run is of one.
RootApp == "LangscapeApp"

RootSim == "SimulatedPlatformTester"

RootClient == "apiClient"

\* the mock application: App, AuthProvider, LoginForm, Dashboard
RootMock == "App"

Roots == { RootApp, RootSim, RootClient, RootMock }

\* The two gateway-wired lifecycle slots.
Slots == { "analyze", "test" }

Direct == "direct"

Callers == Slots \cup { Direct }

TabOf(slot) == IF slot = "analyze" THEN "content-analyzer" ELSE "platform-tester"

Tabs == { TabOf(s) : s \in Slots }

Sessions == { Null, Some("session") }

\* ------------------------------------------------------- backend responses

\* a recommendation as the backend sends it
Recommendation(priority, action) == [ priority |-> priority, action |-> action ]

\* AnalysisResult payloads the backend may send (average_score in tenths);
\* chatgpt comes with two recommendations, claude with none.
AnalysisGood ==
    [ platforms |-> [ p \in {"chatgpt", "claude"} |->
                        IF p = "chatgpt"
                        THEN [ overall_score |-> 72,
                               recommendations |->
                                 << Recommendation("low", "add a summary"),
                                    Recommendation("high", "cite sources") >> ]
                        ELSE [ overall_score |-> 85, recommendations |-> <<>> ] ],
      average_score |-> 785, top_platform |-> "claude", industry_benchmark |-> 70 ]

\* a valid payload for a request that left chatgpt out
AnalysisWithoutChatgpt ==
    [ platforms |-> [ p \in {"claude"} |->
                        [ overall_score |-> 85,
                          recommendations |->
                            << Recommendation("medium", "add headings") >> ] ],
      average_score |-> 850, top_platform |-> "claude", industry_benchmark |-> 70 ]

AnalysisBadAverage == [ AnalysisGood EXCEPT !.average_score = 100 ]

AnalysisBadTop == [ AnalysisGood EXCEPT !.top_platform = "chatgpt" ]

AnalysisBodies ==
    { AnalysisGood, AnalysisBadAverage, AnalysisBadTop, AnalysisWithoutChatgpt }

\* PlatformTestResult payloads; position is a field only when the backend sent one.
TestGood ==
    [ query |-> <<" ", "x">>,
      results |-> [ p \in {"chatgpt", "claude"} |->
                      IF p = "chatgpt"
                      THEN [ appears |-> TRUE, position |-> 2,
                             confidence_score |-> 9, optimization_score |-> 80 ]
                      ELSE [ appears |-> FALSE,
                             confidence_score |-> 4, optimization_score |-> 55 ] ],
      visibility_score |-> 50 ]

TestBadPosition ==
    [ TestGood EXCEPT !.results =
        [ p \in {"chatgpt", "claude"} |->
            IF p = "chatgpt"
            THEN [ appears |-> TRUE,
                   confidence_score |-> 9, optimization_score |-> 80 ]
            ELSE [ appears |-> FALSE, position |-> 3,
                   confidence_score |-> 4, optimization_score |-> 55 ] ] ]

TestBodies == { TestGood, TestBadPosition }

OtherBody == [ status |-> "ok" ]

ErrorBody == [ detail |-> "failure" ]

SuccessBodies(endpoint) ==
    CASE endpoint = "/analyze" -> AnalysisBodies
      [] endpoint = "/test-platforms" -> TestBodies
      [] OTHER -> { OtherBody }

\* What fetch can come back with: a network failure (fetch rejects), or a
\* response with a status, whose body may or may not parse as JSON.
Responses(endpoint) ==
    { [ arrived |-> FALSE, status |-> 0, statusText |-> "", parses |-> FALSE,
        body |-> ErrorBody ] }
    \cup { [ arrived |-> TRUE, status |-> 200, statusText |-> "OK", parses |-> TRUE,
             body |-> b ] : b \in SuccessBodies(endpoint) }
    \cup { [ arrived |-> TRUE, status |-> 200, statusText |-> "OK", parses |-> FALSE,
             body |-> ErrorBody ] }
    \cup { [ arrived |-> TRUE, status |-> 500, statusText |-> "Internal Server Error",
             parses |-> TRUE, body |-> ErrorBody ] }

\* Variant of ResponseOk that takes every status from 200 up as a success.
ResponseOkLoose(resp) == resp.status >= 200

\* Response.ok
ResponseOk(resp) == resp.status >= 200 /\ resp.status <= 299

\* ---------------------------------------------------------------- messages

Message(text, status, statusText) ==
    [ text |-> text, status |-> status, statusText |-> statusText ]

AnalyzeValidationMessage == Message("Please enter some content to analyze", 0, "")

TestValidationMessage ==
    Message("Please enter both a search query and content to test", 0, "")

\* `API Error: ${response.status} ${response.statusText}`
ApiErrorMessage(resp) == Message("API Error: ", resp.status, resp.statusText)

Returned(v) == [ kind |-> "return", value |-> v, name |-> "", message |-> Message("", 0, "") ]

Thrown(name, msg) == [ kind |-> "throw", value |-> ErrorBody, name |-> name, message |-> msg ]

\* ------------------------------------------------------------------- state

VARIABLES
    root,        \* which root component / entry point this run is of
    session,     \* LangscapeApp: the session, Null when signed out
    loading,     \* LangscapeApp: the initial session check has not finished
    gsPending,   \* LangscapeApp: the getSession() promise of the mount effect is outstanding
    activeTab,   \* LangscapeApp: the active tab
    a,           \* ContentAnalyzer: state of the mounted instance
    t,           \* gateway-wired PlatformTester: state of the mounted instance
    net,         \* fetch calls in transit
    issued,      \* number of fetch calls made so far; a call's id is its rank
    lastSubmit,  \* per slot, the id of its most recently accepted submit (0: none)
    accepted,    \* per slot, the number of submits its handler accepted
    fetches,     \* per caller, the number of fetch calls APIClient.request made
    shownReq,    \* per slot, the id of the request whose payload is the visible result
    lastSettle,  \* the fetch completion handled by the last step, Null if it handled none
    sim,         \* simulated PlatformTester: its state
    timers,      \* simulated PlatformTester: pending setTimeout callbacks, oldest first
    lastCall,    \* direct use: the latest gateway call and its arguments, Null if none
    user,        \* AuthProvider: the in-memory user, Null when there is none
    authLoading, \* AuthProvider: the storage check of the mount effect has not run
    storage,     \* sessionStorage: the text under 'langsacape_user', Null when absent
    form,        \* LoginForm: state of the mounted instance
    restored     \* AuthProvider: the user was set by the storage check

vars == << root, session, loading, gsPending, activeTab, a, t, net, issued,
           lastSubmit, accepted, fetches, shownReq, lastSettle, sim, timers, lastCall,
           user, authLoading, storage, form, restored >>

mockVars == << user, authLoading, storage, form, restored >>

\* everything but the root and the state of the mock application
restVars == << session, loading, gsPending, activeTab, a, t, net, issued, lastSubmit,
               accepted, fetches, shownReq, lastSettle, sim, timers, lastCall >>

appVars == << session, loading, gsPending, activeTab >>

simVars == << sim, timers >>

\* useState initial values of ContentAnalyzer
AnalyzerInit ==
    [ content |-> <<>>, isAnalyzing |-> FALSE, analysisResult |-> Null, error |-> Null,
      selectedPlatform |-> "chatgpt" ]

\* useState initial values of the gateway-wired PlatformTester
TesterInit ==
    [ query |-> <<>>, content |-> <<>>, isTesting |-> FALSE, testResult |-> Null,
      error |-> Null ]

\* useState initial values of LoginForm; text is a sequence of pieces
FormInit == [ isLogin |-> TRUE, email |-> <<>>, password |-> "", company |-> "" ]

\* useState initial values of the simulated PlatformTester
SimInit == [ query |-> <<>>, content |-> <<>>, testing |-> FALSE, results |-> Null ]

Init ==
    /\ root \in Roots
    /\ session = Null
    /\ loading = TRUE
    /\ gsPending = TRUE
    /\ activeTab = "content-analyzer"
    /\ a = AnalyzerInit
    /\ t = TesterInit
    /\ net = {}
    /\ issued = 0
    /\ lastSubmit = [ s \in Slots |-> 0 ]
    /\ accepted = [ s \in Slots |-> 0 ]
    /\ fetches = [ c \in Callers |-> 0 ]
    /\ shownReq = [ s \in Slots |-> 0 ]
    /\ lastSettle = Null
    /\ sim = SimInit
    /\ timers = <<>>
    /\ lastCall = Null
    /\ user = Null
    /\ authLoading = TRUE
    /\ storage = Null
    /\ form = FormInit
    /\ restored = FALSE

\* ------------------------------------------------------ views of the state

\* Variant of MountedIn that renders the tool of the active tab without a
\* session.
MountedInWithoutSession(slot, sess, load, tab) == ~load /\ tab = TabOf(slot)

\* LangscapeApp renders a tool only past the loading and no-session branches,
\* and only the tool of the active tab.
MountedIn(slot, sess, load, tab) == ~load /\ sess # Null /\ tab = TabOf(slot)

Mounted(slot) == MountedIn(slot, session, loading, activeTab)

Pending(slot) == IF slot = "analyze" THEN a.isAnalyzing ELSE t.isTesting

Result(slot) == IF slot = "analyze" THEN a.analysisResult ELSE t.testResult

Err(slot) == IF slot = "analyze" THEN a.error ELSE t.error

Outstanding(slot) == { r \in net : r.caller = slot }

\* ----------------------------------------------------------------- gateway

\* APIClient.request up to its await: one fetch call.
Fetch(caller, wire) ==
    /\ issued < MaxSubmits
    /\ issued' = issued + 1
    /\ net' = net \cup { [ id |-> issued + 1, caller |-> caller, live |-> TRUE,
                           wire |-> wire ] }
    /\ fetches' = [ fetches EXCEPT ![caller] = @ + 1 ]

\* APIClient.request after its await: what the promise settles to.
RequestOutcome(resp) ==
    IF ~resp.arrived THEN Thrown("TypeError", Message("Failed to fetch", 0, ""))
    ELSE IF ~ResponseOk(resp) THEN Thrown("Error", ApiErrorMessage(resp))
    ELSE IF ~resp.parses THEN Thrown("SyntaxError", Message("Unexpected token", 0, ""))
    ELSE Returned(resp.body)

\* Variant of OrDefaultPlatforms that always sends the four platforms.
OrDefaultPlatformsIgnoring(opt) == Platforms

\* request.target_platforms || [...]: an array, even an empty one, is truthy
OrDefaultPlatforms(opt) == IF opt = Null THEN Platforms ELSE opt[1]

\* APIClient.analyzeContent: the request it transmits
AnalyzeWire(content, target_platforms) ==
    [ endpoint |-> "/analyze", method |-> "POST",
      body |-> [ content |-> content,
                 target_platforms |-> OrDefaultPlatforms(target_platforms) ] ]

\* request.optimization_level || 'balanced': the empty string is falsy
OrBalanced(opt) == IF opt = Null \/ opt = Some("") THEN "balanced" ELSE opt[1]

\* Variant of OrTrue that also replaces a supplied false (the || idiom).
OrTrueFalsy(opt) == IF opt = Null \/ opt = Some(FALSE) THEN TRUE ELSE opt[1]

\* request.maintain_voice ?? true
OrTrue(opt) == IF opt = Null THEN TRUE ELSE opt[1]

\* APIClient.optimizeContent: the request it transmits
OptimizeWire(content, target_platform, optimization_level, maintain_voice) ==
    [ endpoint |-> "/optimize", method |-> "POST",
      body |-> [ content |-> content, target_platform |-> target_platform,
                 optimization_level |-> OrBalanced(optimization_level),
                 maintain_voice |-> OrTrue(maintain_voice) ] ]

\* APIClient.testPlatforms: the request it transmits
TestWire(query, content, platforms) ==
    [ endpoint |-> "/test-platforms", method |-> "POST",
      body |-> [ query |-> query, content |-> content, platforms |-> platforms ] ]

\* monthlyTraffic: number = 10000
DefaultMonthlyTraffic == 10000

\* conversionRate: number = 0.02, in hundredths
DefaultConversionRate == 2

\* averageOrderValue: number = 2000
DefaultAverageOrderValue == 2000

\* Variant of OrDefault that also replaces a supplied 0 (the || idiom).
OrDefaultFalsy(opt, d) == IF opt = Null \/ opt = Some(0) THEN d ELSE opt[1]

\* a default parameter value replaces undefined only
OrDefault(opt, d) == IF opt = Null THEN d ELSE opt[1]

\* APIClient.predictROI: the request it transmits
PredictWire(currentScore, optimizedScore, monthlyTraffic, conversionRate, averageOrderValue) ==
    [ endpoint |-> "/predict-roi", method |-> "POST",
      body |-> [ current_score |-> currentScore, optimized_score |-> optimizedScore,
                 monthly_traffic |-> OrDefault(monthlyTraffic, DefaultMonthlyTraffic),
                 conversion_rate |-> OrDefault(conversionRate, DefaultConversionRate),
                 average_order_value |->
                     OrDefault(averageOrderValue, DefaultAverageOrderValue) ] ]

\* APIClient.healthCheck: the request it transmits
HealthWire == [ endpoint |-> "/health", method |-> "GET", body |-> [ none |-> TRUE ] ]

\* ------------------------------------------- mounting (LangscapeApp render)

\* Variant of StaysMounted in which both tools are kept alive whatever is
\* rendered (hidden rather than unmounted).
StaysMountedHidden(slot, sess, load, tab) == TRUE

\* The instance of a tool survives a render iff the tool is rendered before and after.
StaysMounted(slot, sess, load, tab) == Mounted(slot) /\ MountedIn(slot, sess, load, tab)

\* Variant of LiveAfter in which the setters of an unmounted instance still
\* reach the state of the slot (state kept outside the component).
LiveAfterAlways(r, sess, load, tab) == r.live

\* A fetch call can still reach the state of the instance that made it iff that
\* instance is still mounted; the setters of an unmounted instance do nothing.
LiveAfter(r, sess, load, tab) ==
    IF r.caller \in Slots THEN r.live /\ StaysMounted(r.caller, sess, load, tab) ELSE r.live

\* LangscapeApp re-renders with a new session, loading flag and tab: a tool that
\* is no longer rendered loses its state, a tool rendered anew starts from its
\* initial state.
Render(sess, load, tab) ==
    /\ session' = sess
    /\ loading' = load
    /\ activeTab' = tab
    /\ a' = IF StaysMounted("analyze", sess, load, tab) THEN a ELSE AnalyzerInit
    /\ t' = IF StaysMounted("test", sess, load, tab) THEN t ELSE TesterInit
    /\ shownReq' = [ s \in Slots |->
                       IF StaysMounted(s, sess, load, tab) THEN shownReq[s] ELSE 0 ]
    /\ net' = { [ r EXCEPT !.live = LiveAfter(r, sess, load, tab) ] : r \in net }
    /\ lastSettle' = Null
    /\ UNCHANGED << root, lastCall, mockVars, issued, lastSubmit, accepted, fetches, simVars >>

\* supabase.auth.getSession().then(...) of the mount effect
GetSessionResolves(sess) ==
    /\ root = RootApp
    /\ gsPending
    /\ gsPending' = FALSE
    /\ Render(sess, FALSE, activeTab)

\* the onAuthStateChange callback (sign in, sign out, token refresh)
OnAuthStateChange(sess) ==
    /\ root = RootApp
    /\ UNCHANGED gsPending
    /\ Render(sess, FALSE, activeTab)

\* the two tab buttons of the sidebar, rendered past the loading and no-session branches
SetActiveTab(tab) ==
    /\ root = RootApp
    /\ ~loading /\ session # Null
    /\ tab # activeTab
    /\ UNCHANGED gsPending
    /\ Render(session, loading, tab)

\* ------------------------------------------------------- ContentAnalyzer

\* Variant of SetContent in which an edit also ends the pending state.
SetContentCancelling(v) ==
    /\ root = RootApp
    /\ Mounted("analyze")
    /\ v # a.content
    /\ a' = [ a EXCEPT !.content = v, !.isAnalyzing = FALSE ]
    /\ lastSettle' = Null
    /\ UNCHANGED << root, lastCall, mockVars, appVars, t, net, issued, lastSubmit, accepted, fetches,
                    shownReq, simVars >>

\* the textarea's onChange
SetContent(v) ==
    /\ root = RootApp
    /\ Mounted("analyze")
    /\ v # a.content
    /\ a' = [ a EXCEPT !.content = v ]
    /\ lastSettle' = Null
    /\ UNCHANGED << root, lastCall, mockVars, appVars, t, net, issued, lastSubmit, accepted, fetches,
                    shownReq, simVars >>

\* Variant of SelectPlatform that reports a platform without recommendations
\* as an error.
SelectPlatformRaising(p) ==
    /\ root = RootApp
    /\ Mounted("analyze")
    /\ a.analysisResult # Null
    /\ p \in DOMAIN a.analysisResult[1].platforms
    /\ p # a.selectedPlatform
    /\ a' = [ a EXCEPT !.selectedPlatform = p,
                        !.error = IF a.analysisResult[1].platforms[p].recommendations = <<>>
                                  THEN Some(Message("No recommendations", 0, ""))
                                  ELSE @ ]
    /\ lastSettle' = Null
    /\ UNCHANGED << root, lastCall, mockVars, appVars, t, net, issued, lastSubmit, accepted, fetches,
                    shownReq, simVars >>

\* a click on the score card of a platform: the cards are the entries of
\* analysisResult.platforms
SelectPlatform(p) ==
    /\ root = RootApp
    /\ Mounted("analyze")
    /\ a.analysisResult # Null
    /\ p \in DOMAIN a.analysisResult[1].platforms
    /\ p # a.selectedPlatform
    /\ a' = [ a EXCEPT !.selectedPlatform = p ]
    /\ lastSettle' = Null
    /\ UNCHANGED << root, lastCall, mockVars, appVars, t, net, issued, lastSubmit, accepted, fetches,
                    shownReq, simVars >>

\* Variant of AnalyzeDisabled that leaves the button enabled while analyzing.
AnalyzeDisabledOnlyBlank == Blank(a.content)

\* disabled={isAnalyzing || !content.trim()}
AnalyzeDisabled == a.isAnalyzing \/ Blank(a.content)

\* Variant of HandleAnalyze that leaves the previous error in place on submit.
HandleAnalyzeKeepingError ==
    IF Blank(a.content)
    THEN /\ a' = [ a EXCEPT !.error = Some(AnalyzeValidationMessage) ]
         /\ UNCHANGED << net, issued, fetches, lastSubmit, accepted >>
    ELSE /\ a' = [ a EXCEPT !.isAnalyzing = TRUE ]
         /\ Fetch("analyze", AnalyzeWire(a.content, Some(Platforms)))
         /\ lastSubmit' = [ lastSubmit EXCEPT !["analyze"] = issued + 1 ]
         /\ accepted' = [ accepted EXCEPT !["analyze"] = @ + 1 ]

\* Variant of HandleAnalyze without the validation branch.
HandleAnalyzeNoValidation ==
    /\ a' = [ a EXCEPT !.isAnalyzing = TRUE, !.error = Null ]
    /\ Fetch("analyze", AnalyzeWire(a.content, Some(Platforms)))
    /\ lastSubmit' = [ lastSubmit EXCEPT !["analyze"] = issued + 1 ]
    /\ accepted' = [ accepted EXCEPT !["analyze"] = @ + 1 ]

\* handleAnalyze up to its await
HandleAnalyze ==
    IF Blank(a.content)
    THEN /\ a' = [ a EXCEPT !.error = Some(AnalyzeValidationMessage) ]
         /\ UNCHANGED << net, issued, fetches, lastSubmit, accepted >>
    ELSE /\ a' = [ a EXCEPT !.isAnalyzing = TRUE, !.error = Null ]
         /\ Fetch("analyze", AnalyzeWire(a.content, Some(Platforms)))
         /\ lastSubmit' = [ lastSubmit EXCEPT !["analyze"] = issued + 1 ]
         /\ accepted' = [ accepted EXCEPT !["analyze"] = @ + 1 ]

\* a click on the Analyze button
ClickAnalyze ==
    /\ root = RootApp
    /\ Mounted("analyze")
    /\ ~AnalyzeDisabled
    /\ HandleAnalyze
    /\ lastSettle' = Null
    /\ UNCHANGED << root, lastCall, mockVars, appVars, t, shownReq, simVars >>

\* err instanceof Error ? err.message : fallback ; all that fetch and
\* request throw are Errors
CatchMessage(outcome, fallback) ==
    IF outcome.name \in { "Error", "TypeError", "SyntaxError" }
    THEN outcome.message ELSE Message(fallback, 0, "")

\* Variant of AnalyzeContinuation whose catch block also clears the result.
AnalyzeContinuationClearing(outcome) ==
    IF outcome.kind = "return"
    THEN [ a EXCEPT !.analysisResult = Some(outcome.value), !.isAnalyzing = FALSE ]
    ELSE [ a EXCEPT !.error = Some(CatchMessage(outcome, "Failed to analyze content")),
                    !.analysisResult = Null, !.isAnalyzing = FALSE ]

\* Variant of AnalyzeContinuation without the finally block: a failure leaves
\* isAnalyzing set.
AnalyzeContinuationNoFinally(outcome) ==
    IF outcome.kind = "return"
    THEN [ a EXCEPT !.analysisResult = Some(outcome.value), !.isAnalyzing = FALSE ]
    ELSE [ a EXCEPT !.error = Some(CatchMessage(outcome, "Failed to analyze content")) ]

\* handleAnalyze after its await: try / catch / finally
AnalyzeContinuation(outcome) ==
    IF outcome.kind = "return"
    THEN [ a EXCEPT !.analysisResult = Some(outcome.value), !.isAnalyzing = FALSE ]
    ELSE [ a EXCEPT !.error = Some(CatchMessage(outcome, "Failed to analyze content")),
                    !.isAnalyzing = FALSE ]

\* Variant of Refetch that fetches again when the call failed.
RefetchOnError(r, outcome) == IF outcome.kind = "throw" THEN { r } ELSE {}

\* APIClient.request makes no further fetch call once the response is in.
Refetch(r, outcome) == {}

\* the record of a handled completion
Settlement(r, resp) ==
    Some([ id |-> r.id, caller |-> r.caller, endpoint |-> r.wire.endpoint,
           live |-> r.live, resp |-> resp, outcome |-> RequestOutcome(resp) ])

\* Variant of Complete in which one completion empties the transport.
CompleteDroppingAll(r, resp) ==
    /\ net' = {}
    /\ fetches' = fetches
    /\ lastSettle' = Settlement(r, resp)
    /\ UNCHANGED << issued, lastSubmit, accepted >>

\* what every completion does to the transport
Complete(r, resp) ==
    /\ net' = (net \ { r }) \cup Refetch(r, RequestOutcome(resp))
    /\ fetches' = [ fetches EXCEPT ![r.caller] =
                      @ + Cardinality(Refetch(r, RequestOutcome(resp))) ]
    /\ lastSettle' = Settlement(r, resp)
    /\ UNCHANGED << issued, lastSubmit, accepted >>

\* the fetch of a mounted ContentAnalyzer completes
AnalyzeSettles(r, resp) ==
    /\ r.caller = "analyze" /\ r.live
    /\ Complete(r, resp)
    /\ a' = AnalyzeContinuation(RequestOutcome(resp))
    /\ shownReq' = IF RequestOutcome(resp).kind = "return"
                   THEN [ shownReq EXCEPT !["analyze"] = r.id ] ELSE shownReq
    /\ UNCHANGED << root, lastCall, mockVars, appVars, t, simVars >>

\* ---------------------------------------------- gateway-wired PlatformTester

\* the query input's onChange (and the sample query buttons)
SetQuery(v) ==
    /\ root = RootApp
    /\ Mounted("test")
    /\ v # t.query
    /\ t' = [ t EXCEPT !.query = v ]
    /\ lastSettle' = Null
    /\ UNCHANGED << root, lastCall, mockVars, appVars, a, net, issued, lastSubmit, accepted, fetches,
                    shownReq, simVars >>

\* the content textarea's onChange
SetTestContent(v) ==
    /\ root = RootApp
    /\ Mounted("test")
    /\ v # t.content
    /\ t' = [ t EXCEPT !.content = v ]
    /\ lastSettle' = Null
    /\ UNCHANGED << root, lastCall, mockVars, appVars, a, net, issued, lastSubmit, accepted, fetches,
                    shownReq, simVars >>

\* Variant of TestDisabled that leaves the button enabled while testing.
TestDisabledOnlyBlank == Blank(t.query) \/ Blank(t.content)

\* disabled={isTesting || !query.trim() || !content.trim()}
TestDisabled == t.isTesting \/ Blank(t.query) \/ Blank(t.content)

\* Variant of HandleTest that leaves the previous error in place on submit.
HandleTestKeepingError ==
    IF Blank(t.query) \/ Blank(t.content)
    THEN /\ t' = [ t EXCEPT !.error = Some(TestValidationMessage) ]
         /\ UNCHANGED << net, issued, fetches, lastSubmit, accepted >>
    ELSE /\ t' = [ t EXCEPT !.isTesting = TRUE ]
         /\ Fetch("test", TestWire(t.query, t.content, Platforms))
         /\ lastSubmit' = [ lastSubmit EXCEPT !["test"] = issued + 1 ]
         /\ accepted' = [ accepted EXCEPT !["test"] = @ + 1 ]

\* handleTest up to its await
HandleTest ==
    IF Blank(t.query) \/ Blank(t.content)
    THEN /\ t' = [ t EXCEPT !.error = Some(TestValidationMessage) ]
         /\ UNCHANGED << net, issued, fetches, lastSubmit, accepted >>
    ELSE /\ t' = [ t EXCEPT !.isTesting = TRUE, !.error = Null ]
         /\ Fetch("test", TestWire(t.query, t.content, Platforms))
         /\ lastSubmit' = [ lastSubmit EXCEPT !["test"] = issued + 1 ]
         /\ accepted' = [ accepted EXCEPT !["test"] = @ + 1 ]

\* a click on the Test button
ClickTest ==
    /\ root = RootApp
    /\ Mounted("test")
    /\ ~TestDisabled
    /\ HandleTest
    /\ lastSettle' = Null
    /\ UNCHANGED << root, lastCall, mockVars, appVars, a, shownReq, simVars >>

\* Variant of TestContinuation that does not store the payload it received.
TestContinuationDroppingPayload(outcome) ==
    IF outcome.kind = "return"
    THEN [ t EXCEPT !.isTesting = FALSE ]
    ELSE [ t EXCEPT !.error = Some(CatchMessage(outcome, "Failed to test platforms")),
                    !.isTesting = FALSE ]

\* handleTest after its await: try / catch / finally
TestContinuation(outcome) ==
    IF outcome.kind = "return"
    THEN [ t EXCEPT !.testResult = Some(outcome.value), !.isTesting = FALSE ]
    ELSE [ t EXCEPT !.error = Some(CatchMessage(outcome, "Failed to test platforms")),
                    !.isTesting = FALSE ]

\* the fetch of a mounted PlatformTester completes
TestSettles(r, resp) ==
    /\ r.caller = "test" /\ r.live
    /\ Complete(r, resp)
    /\ t' = TestContinuation(RequestOutcome(resp))
    /\ shownReq' = IF RequestOutcome(resp).kind = "return"
                   THEN [ shownReq EXCEPT !["test"] = r.id ] ELSE shownReq
    /\ UNCHANGED << root, lastCall, mockVars, appVars, a, simVars >>

\* the fetch of an instance that has been unmounted completes: the continuation
\* runs, and its setters change nothing
StaleSettles(r, resp) ==
    /\ r.caller \in Slots /\ ~r.live
    /\ Complete(r, resp)
    /\ UNCHANGED << root, lastCall, mockVars, appVars, a, t, shownReq, simVars >>

\* ------------------------------------------------ direct use of apiClient

DirectCall(wire) ==
    /\ Cardinality(net) < MaxDirectInFlight
    /\ Fetch(Direct, wire)
    /\ lastSettle' = Null
    /\ UNCHANGED << root, mockVars, appVars, a, t, lastSubmit, accepted, shownReq,
                    simVars >>

\* the gateway method called and the arguments it was called with; the fetch
\* call it makes is the next one issued
Called(op, args) == lastCall' = Some([ id |-> issued + 1, op |-> op, args |-> args ])

\* apiClient.analyzeContent(request)
CallAnalyzeContent(content, target_platforms) ==
    /\ root = RootClient
    /\ DirectCall(AnalyzeWire(content, target_platforms))
    /\ Called("analyzeContent",
              [ content |-> content, target_platforms |-> target_platforms ])

\* apiClient.optimizeContent(request)
CallOptimizeContent(content, target_platform, optimization_level, maintain_voice) ==
    /\ root = RootClient
    /\ DirectCall(OptimizeWire(content, target_platform, optimization_level, maintain_voice))
    /\ Called("optimizeContent",
              [ content |-> content, target_platform |-> target_platform,
                optimization_level |-> optimization_level,
                maintain_voice |-> maintain_voice ])

\* apiClient.testPlatforms(request)
CallTestPlatforms(query, content, platforms) ==
    /\ root = RootClient
    /\ DirectCall(TestWire(query, content, platforms))
    /\ Called("testPlatforms",
              [ query |-> query, content |-> content, platforms |-> platforms ])

\* apiClient.predictROI(currentScore, optimizedScore, monthlyTraffic?,
\* conversionRate?, averageOrderValue?)
CallPredictROI(currentScore, optimizedScore, monthlyTraffic, conversionRate, averageOrderValue) ==
    /\ root = RootClient
    /\ DirectCall(PredictWire(currentScore, optimizedScore, monthlyTraffic,
                              conversionRate, averageOrderValue))
    /\ Called("predictROI",
              [ currentScore |-> currentScore, optimizedScore |-> optimizedScore,
                monthlyTraffic |-> monthlyTraffic, conversionRate |-> conversionRate,
                averageOrderValue |-> averageOrderValue ])

\* apiClient.healthCheck()
CallHealthCheck ==
    /\ root = RootClient
    /\ DirectCall(HealthWire)
    /\ Called("healthCheck", [ none |-> TRUE ])

\* the fetch of a direct call completes: its promise settles
DirectSettles(r, resp) ==
    /\ r.caller = Direct
    /\ Complete(r, resp)
    /\ UNCHANGED << root, lastCall, mockVars, appVars, a, t, shownReq, simVars >>

\* --------------------------------------------- simulated PlatformTester

\* the array the timeout callback builds: confidence in hundredths,
\* responseTime in tenths of a second
MockResults(content) ==
    LET excerpt == SubSeq(content, 1, IF Len(content) < 100 THEN Len(content) ELSE 100)
    IN << [ platform |-> "ChatGPT", cited |-> TRUE, position |-> 2,
            snippet |-> << "According to recent analysis, ", excerpt, "..." >>,
            confidence |-> 92, responseTime |-> 12 ],
          [ platform |-> "Claude", cited |-> TRUE, position |-> 1,
            snippet |-> << "Based on the comprehensive guide, ", excerpt, "..." >>,
            confidence |-> 88, responseTime |-> 9 ],
          [ platform |-> "Perplexity", cited |-> FALSE,
            confidence |-> 45, responseTime |-> 15 ],
          [ platform |-> "Google AI", cited |-> TRUE, position |-> 3,
            snippet |-> << "The analysis shows that ", excerpt, "..." >>,
            confidence |-> 76, responseTime |-> 21 ] >>

\* the query input's onChange
SimSetQuery(v) ==
    /\ root = RootSim
    /\ v # sim.query
    /\ sim' = [ sim EXCEPT !.query = v ]
    /\ UNCHANGED << root, lastCall, mockVars, appVars, a, t, net, issued, lastSubmit, accepted, fetches,
                    shownReq, lastSettle, timers >>

\* the content textarea's onChange
SimSetContent(v) ==
    /\ root = RootSim
    /\ v # sim.content
    /\ sim' = [ sim EXCEPT !.content = v ]
    /\ UNCHANGED << root, lastCall, mockVars, appVars, a, t, net, issued, lastSubmit, accepted, fetches,
                    shownReq, lastSettle, timers >>

\* disabled={!query.trim() || !content.trim() || testing}
SimDisabled == Blank(sim.query) \/ Blank(sim.content) \/ sim.testing

\* testPlatforms: an early return, or setTesting(true) and a timeout whose
\* callback closes over the content of this render
SimTestPlatforms ==
    IF Blank(sim.query) \/ Blank(sim.content)
    THEN UNCHANGED << sim, timers >>
    ELSE /\ Len(timers) < MaxSubmits
         /\ sim' = [ sim EXCEPT !.testing = TRUE ]
         /\ timers' = Append(timers, sim.content)

\* a click on the Test All Platforms button
SimClickTest ==
    /\ root = RootSim
    /\ ~SimDisabled
    /\ SimTestPlatforms
    /\ UNCHANGED << root, lastCall, mockVars, appVars, a, t, net, issued, lastSubmit, accepted, fetches,
                    shownReq, lastSettle >>

\* the timeout callback: timers of one delay fire in the order they were set
SimTimerFires ==
    /\ root = RootSim
    /\ timers # <<>>
    /\ sim' = [ sim EXCEPT !.results = Some(MockResults(Head(timers))), !.testing = FALSE ]
    /\ timers' = Tail(timers)
    /\ UNCHANGED << root, lastCall, mockVars, appVars, a, t, net, issued, lastSubmit, accepted, fetches,
                    shownReq, lastSettle >>

\* ------------------------------------------------ the mock application

\* what the address field may hold: nothing, an address, a text without @
Emails == { <<>>, << "ann", "@", "acme.com" >>, << "bob" >> }

Passwords == { "", "secret" }

Companies == { "", "Acme" }

\* email.split('@')[0]: the text before the first @
RECURSIVE BeforeAt(_)
BeforeAt(email) ==
    IF email = <<>> \/ Head(email) = "@" THEN <<>>
    ELSE << Head(email) >> \o BeforeAt(Tail(email))

\* the mockUser object of login and signup
MockUser(email, company, plan) ==
    [ id |-> "1", email |-> email, name |-> BeforeAt(email), company |-> company,
      plan |-> plan ]

\* JSON.stringify(mockUser): the members in the order of the object literal
JsonStringify(u) ==
    << << "id", u.id >>, << "email", u.email >>, << "name", u.name >>,
       << "company", u.company >>, << "plan", u.plan >> >>

\* the value of a member of a JSON text
Member(text, key) == text[CHOOSE i \in DOMAIN text : text[i][1] = key][2]

\* JSON.parse(storedUser)
JsonParse(text) ==
    [ id |-> Member(text, "id"), email |-> Member(text, "email"),
      name |-> Member(text, "name"), company |-> Member(text, "company"),
      plan |-> Member(text, "plan") ]

\* AppContent: what is rendered
Screen ==
    IF authLoading THEN "loading" ELSE IF user # Null THEN "dashboard" ELSE "login"

\* the mount effect of AuthProvider: the storage check
AuthEffect ==
    /\ root = RootMock
    /\ authLoading
    /\ user' = IF storage # Null THEN Some(JsonParse(storage[1])) ELSE user
    /\ restored' = (storage # Null)
    /\ authLoading' = FALSE
    /\ UNCHANGED << root, restVars, storage, form >>

\* the inputs of LoginForm and the link that toggles between sign in and sign up
SetEmail(v) ==
    /\ root = RootMock /\ Screen = "login"
    /\ v # form.email
    /\ form' = [ form EXCEPT !.email = v ]
    /\ UNCHANGED << root, restVars, user, authLoading, storage, restored >>

SetPassword(v) ==
    /\ root = RootMock /\ Screen = "login"
    /\ v # form.password
    /\ form' = [ form EXCEPT !.password = v ]
    /\ UNCHANGED << root, restVars, user, authLoading, storage, restored >>

SetCompany(v) ==
    /\ root = RootMock /\ Screen = "login"
    /\ ~form.isLogin
    /\ v # form.company
    /\ form' = [ form EXCEPT !.company = v ]
    /\ UNCHANGED << root, restVars, user, authLoading, storage, restored >>

SetIsLogin ==
    /\ root = RootMock /\ Screen = "login"
    /\ form' = [ form EXCEPT !.isLogin = ~form.isLogin ]
    /\ UNCHANGED << root, restVars, user, authLoading, storage, restored >>

\* login and signup: setUser(mockUser), then setItem; the dashboard replaces
\* the form
SignIn(u) ==
    /\ user' = Some(u)
    /\ storage' = Some(JsonStringify(u))
    /\ restored' = FALSE
    /\ form' = FormInit

\* handleSubmit of LoginForm, past its check of the fields (which only alerts)
HandleSubmit ==
    /\ root = RootMock /\ Screen = "login"
    /\ ~(form.email = <<>> \/ form.password = "" \/ (~form.isLogin /\ form.company = ""))
    /\ IF form.isLogin
       THEN SignIn(MockUser(form.email, "Demo Company", "enterprise"))
       ELSE SignIn(MockUser(form.email, form.company, "trial"))
    /\ UNCHANGED << root, restVars, authLoading >>

\* Variant of Logout that leaves the stored user in place.
LogoutKeepingStorage ==
    /\ root = RootMock /\ Screen = "dashboard"
    /\ user' = Null
    /\ restored' = FALSE
    /\ UNCHANGED << root, restVars, authLoading, storage, form >>

\* logout, from the Sign Out button of the dashboard
Logout ==
    /\ root = RootMock /\ Screen = "dashboard"
    /\ user' = Null
    /\ storage' = Null
    /\ restored' = FALSE
    /\ UNCHANGED << root, restVars, authLoading, form >>

\* the page is loaded again in the same tab: every component starts from its
\* initial state, sessionStorage stays
Remount ==
    /\ root = RootMock
    /\ ~authLoading
    /\ user' = Null
    /\ authLoading' = TRUE
    /\ restored' = FALSE
    /\ form' = FormInit
    /\ UNCHANGED << root, restVars, storage >>

\* ----------------------------- summary statistics of the simulated tester

\* Math.round of the non-negative fraction num / den: the nearest integer,
\* a half rounded up
MathRound(num, den) == (2 * num + den) \div (2 * den)

\* Variant of CitationRate that drops the fraction instead of rounding.
CitationRateTruncating(results) ==
    IF results = Null THEN 0
    ELSE (100 * Len(SelectSeq(results[1], LAMBDA r : r.cited))) \div Len(results[1])

\* const citationRate: 0 while results is null, else the share of cited
\* results as a rounded percentage
CitationRate(results) ==
    IF results = Null THEN 0
    ELSE MathRound(100 * Len(SelectSeq(results[1], LAMBDA r : r.cited)), Len(results[1]))

\* r.position as a condition: a missing position and the position 0 are falsy
HasPosition(r) == "position" \in DOMAIN r /\ r.position # 0

\* reduce((acc, r) => acc + (r.position || 0), 0)
RECURSIVE SumPositions(_)
SumPositions(rs) ==
    IF rs = <<>> THEN 0
    ELSE (IF HasPosition(Head(rs)) THEN Head(rs).position ELSE 0) + SumPositions(Tail(rs))

\* (num / den).toFixed(1), in tenths: the nearest tenth, a half rounded up
ToFixedOne(num, den) == (20 * num + den) \div (2 * den)

\* Variant of AvgPosition that divides by the number of all results.
AvgPositionOverAll(results) ==
    LET ranked == SelectSeq(results, LAMBDA r : r.cited /\ HasPosition(r))
    IN IF Len(ranked) > 0
       THEN Some(ToFixedOne(SumPositions(ranked), Len(results)))
       ELSE Null

\* the Avg Position card for a result array: Null stands for 'N/A', Some(n)
\* for the text of n tenths
AvgPosition(results) ==
    LET ranked == SelectSeq(results, LAMBDA r : r.cited /\ HasPosition(r))
    IN IF Len(ranked) > 0
       THEN Some(ToFixedOne(SumPositions(ranked), Len(ranked)))
       ELSE Null

\* reduce((acc, r) => acc + r.responseTime, 0), in tenths of a second
RECURSIVE SumResponseTimes(_)
SumResponseTimes(rs) ==
    IF rs = <<>> THEN 0 ELSE Head(rs).responseTime + SumResponseTimes(Tail(rs))

\* (num / den).toFixed(1) for num in tenths, as tenths: the nearest tenth, a
\* half rounded up
ToFixedOneOfTenths(num, den) == (2 * num + den) \div (2 * den)

\* Variant of AvgResponseTime that divides by the number of cited results.
AvgResponseTimeOverCited(results) ==
    ToFixedOneOfTenths(SumResponseTimes(results),
                       Len(SelectSeq(results, LAMBDA r : r.cited)))

\* the Avg Response Time card for a result array, in tenths of a second
AvgResponseTime(results) ==
    ToFixedOneOfTenths(SumResponseTimes(results), Len(results))

\* PlatformResult values as far as the statistics read them: position is a
\* positive integer when it is there, responseTime is in tenths of a second
ResultRecords ==
    { [ cited |-> c, responseTime |-> rt ] : c \in BOOLEAN, rt \in { 9, 16 } }
    \cup { [ cited |-> c, position |-> pos, responseTime |-> rt ] :
              c \in BOOLEAN, pos \in { 1, 2 }, rt \in { 9, 16 } }

\* the non-empty result arrays of at most MaxResults results
ResultArrays == UNION { [ 1..n -> ResultRecords ] : n \in 1..MaxResults }

\* ---------------------------------------------------------- specifications

Environment ==
    \/ \E sess \in Sessions : GetSessionResolves(sess)
    \/ \E sess \in Sessions : OnAuthStateChange(sess)
    \/ \E tab \in Tabs : SetActiveTab(tab)
    \/ \E v \in Texts : SetContent(v)
    \/ \E p \in PlatformIds : SelectPlatform(p)
    \/ \E v \in Texts : SetQuery(v)
    \/ \E v \in Texts : SetTestContent(v)
    \/ \E r \in net : \E resp \in Responses(r.wire.endpoint) : AnalyzeSettles(r, resp)
    \/ \E r \in net : \E resp \in Responses(r.wire.endpoint) : TestSettles(r, resp)
    \/ \E r \in net : \E resp \in Responses(r.wire.endpoint) : StaleSettles(r, resp)

DirectCalls ==
    \/ \E c \in Texts, tp \in { Null, Some(<< "claude" >>), Some(<< "claude", "bing" >>) } :
            CallAnalyzeContent(c, tp)
    \/ \E c \in { <<>>, <<" ", "x">> }, tp \in { "", "claude" },
          lv \in { Null, Some("aggressive") }, mv \in { Null, Some(FALSE) } :
            CallOptimizeContent(c, tp, lv, mv)
    \/ \E q \in { <<>>, <<" ", "x">> }, c \in { <<>>, <<" ", "x">> } :
            CallTestPlatforms(q, c, Platforms)
    \/ \E mt \in { Null, Some(0) }, cr \in { Null, Some(0) }, aov \in { Null, Some(0) } :
            CallPredictROI(50, 80, mt, cr, aov)
    \/ CallHealthCheck
    \/ \E r \in net : \E resp \in Responses(r.wire.endpoint) : DirectSettles(r, resp)

Simulated ==
    \/ \E v \in Texts : SimSetQuery(v)
    \/ \E v \in Texts : SimSetContent(v)
    \/ SimClickTest
    \/ SimTimerFires

Mock ==
    \/ AuthEffect
    \/ \E v \in Emails : SetEmail(v)
    \/ \E v \in Passwords : SetPassword(v)
    \/ \E v \in Companies : SetCompany(v)
    \/ SetIsLogin
    \/ HandleSubmit
    \/ Logout
    \/ Remount

\* The program as its users drive it: handlers run on clicks of enabled buttons.
Next ==
    \/ Environment
    \/ ClickAnalyze
    \/ ClickTest
    \/ DirectCalls
    \/ Simulated
    \/ Mock

Spec == Init /\ [][Next]_vars

\* handleAnalyze called whatever the button's disabled attribute says
InvokeHandleAnalyze ==
    /\ root = RootApp
    /\ Mounted("analyze")
    /\ HandleAnalyze
    /\ lastSettle' = Null
    /\ UNCHANGED << root, lastCall, mockVars, appVars, t, shownReq, simVars >>

\* handleTest called whatever the button's disabled attribute says
InvokeHandleTest ==
    /\ root = RootApp
    /\ Mounted("test")
    /\ HandleTest
    /\ lastSettle' = Null
    /\ UNCHANGED << root, lastCall, mockVars, appVars, a, shownReq, simVars >>

\* The handlers as functions: every branch of handleAnalyze and handleTest runs.
NextHandlers ==
    \/ Environment
    \/ InvokeHandleAnalyze
    \/ InvokeHandleTest

InitHandlers == Init /\ root = RootApp

SpecHandlers == InitHandlers /\ [][NextHandlers]_vars

\* The simulated tester holding any result array, or none: the statistics as
\* functions of results.
InitAggregation ==
    /\ root = RootSim
    /\ session = Null
    /\ loading = TRUE
    /\ gsPending = TRUE
    /\ activeTab = "content-analyzer"
    /\ a = AnalyzerInit
    /\ t = TesterInit
    /\ net = {}
    /\ issued = 0
    /\ lastSubmit = [ s \in Slots |-> 0 ]
    /\ accepted = [ s \in Slots |-> 0 ]
    /\ fetches = [ c \in Callers |-> 0 ]
    /\ shownReq = [ s \in Slots |-> 0 ]
    /\ lastSettle = Null
    /\ sim \in { [ SimInit EXCEPT !.results = rs ] :
                   rs \in { Null } \cup { Some(x) : x \in ResultArrays } }
    /\ timers = <<>>
    /\ lastCall = Null
    /\ user = Null
    /\ authLoading = TRUE
    /\ storage = Null
    /\ form = FormInit
    /\ restored = FALSE

\* every edit of the query re-renders the component and computes the
\* statistics anew
NextAggregation == \E v \in Texts : SimSetQuery(v)

SpecAggregation == InitAggregation /\ [][NextAggregation]_vars

\* ------------------------------------------------------------- properties

Settled == lastSettle[1]

SettledFor(slot) == lastSettle # Null /\ Settled.caller = slot

\* the completion handled by this step, seen from the step's first state
SettlesNow(slot, kind) ==
    /\ lastSettle' # Null
    /\ lastSettle'[1].caller = slot
    /\ lastSettle'[1].outcome.kind = kind

\* a later submit on the same slot was accepted after this request's
Superseded(slot, id) == id < lastSubmit[slot]

\* C1: a result that becomes visible in a slot is that of the slot's most
\* recently submitted request, and the success of a request that a later submit
\* on the slot has superseded changes neither the visible result nor the request
\* it is of.
StaleSuccessSuppressed ==
    [][ \A s \in Slots :
          /\ (shownReq'[s] # shownReq[s] /\ shownReq'[s] # 0)
                => shownReq'[s] = lastSubmit[s]
          /\ (SettlesNow(s, "return") /\ Superseded(s, lastSettle'[1].id))
                => (Result(s)' = Result(s) /\ shownReq'[s] = shownReq[s]) ]_vars

\* A before B, A's response after B's: B's result is the visible one.
StaleSuccessWitness ==
    \E s \in Slots :
        /\ SettledFor(s)
        /\ Settled.outcome.kind = "return"
        /\ Result(s) # Null
        /\ shownReq[s] = lastSubmit[s]
        /\ Settled.id < shownReq[s]

\* C2: the failure of a request that a later submit on the slot has superseded
\* changes neither the slot's error, nor its pending flag, nor its result.
StaleRejectionSuppressed ==
    [][ \A s \in Slots :
          (SettlesNow(s, "throw") /\ Superseded(s, lastSettle'[1].id))
              => (Err(s)' = Err(s) /\ Pending(s)' = Pending(s) /\ Result(s)' = Result(s)) ]_vars

\* A superseded request has failed while the newer one is still outstanding.
StaleRejectionWitness ==
    \E s \in Slots :
        /\ SettledFor(s)
        /\ Settled.outcome.kind = "throw"
        /\ Superseded(s, Settled.id)
        /\ Pending(s)
        /\ Err(s) = Null
        /\ \E r \in Outstanding(s) : r.id = lastSubmit[s]

\* C3 as stated: no slot ever has two requests that have neither resolved nor failed.
AtMostOneOutstanding ==
    /\ \A s \in Slots : Cardinality(Outstanding(s)) <= 1
    /\ Len(timers) <= 1

\* C3 amended: the mounted instance of a slot has at most one request
\* outstanding, and its pending flag is up while it has one; the simulated
\* tester has at most one timer pending.  Requests of unmounted instances may
\* still be in transit beside it.
AtMostOneLiveOutstanding ==
    /\ \A s \in Slots :
          /\ Cardinality({ r \in Outstanding(s) : r.live }) <= 1
          /\ \A r \in Outstanding(s) : r.live => (Mounted(s) /\ Pending(s))
    /\ Len(timers) <= 1
    /\ (timers # <<>> => sim.testing)

\* A request of the mounted instance and one of an unmounted instance are in transit.
LiveBesideStaleWitness ==
    \E s \in Slots : \E r1, r2 \in Outstanding(s) : r1.live /\ ~r2.live

\* C4: a step that makes a new error visible in a slot leaves the slot's
\* visible result as it was.
ErrorPreservesResult ==
    [][ \A s \in Slots :
          (Err(s)' # Null /\ Err(s)' # Err(s))
              => (Result(s)' = Result(s) /\ shownReq'[s] = shownReq[s]) ]_vars

\* An HTTP 500 has just been shown beside an earlier result.
ErrorBesideResultWitness ==
    /\ SettledFor("analyze")
    /\ Settled.resp.status = 500
    /\ a.analysisResult # Null
    /\ a.error = Some(ApiErrorMessage(Settled.resp))

ValidationMessage(slot) ==
    IF slot = "analyze" THEN AnalyzeValidationMessage ELSE TestValidationMessage

BlankInput(slot) ==
    IF slot = "analyze" THEN Blank(a.content) ELSE Blank(t.query) \/ Blank(t.content)

\* C5: a step that raises the validation error of a slot makes no transport
\* call and leaves the pending flag as it was, and a submit is accepted (a
\* transport call made) only with non-blank inputs.
ValidationShortCircuits ==
    [][ \A s \in Slots :
          /\ (Err(s)' = Some(ValidationMessage(s)) /\ Err(s)' # Err(s))
                => /\ BlankInput(s)
                   /\ Pending(s)' = Pending(s)
                   /\ UNCHANGED << net, issued, fetches, accepted, lastSubmit >>
          /\ (accepted'[s] # accepted[s] \/ fetches'[s] # fetches[s])
                => ~BlankInput(s) ]_vars

\* test-platforms submitted with a query and empty content: the validation
\* error is up, the slot is not pending, nothing was ever transmitted.
ValidationWitness ==
    /\ t.error = Some(TestValidationMessage)
    /\ ~Blank(t.query) /\ t.content = <<>>
    /\ ~t.isTesting
    /\ fetches["test"] = 0 /\ net = {}

RequiredFieldsPresent(wire) ==
    CASE wire.endpoint = "/analyze" -> wire.body.content # <<>>
      [] wire.endpoint = "/optimize" ->
            wire.body.content # <<>> /\ wire.body.target_platform # ""
      [] wire.endpoint = "/test-platforms" ->
            wire.body.query # <<>> /\ wire.body.content # <<>>
      [] OTHER -> TRUE

\* C6: no request with an empty required field is ever transmitted.
GatewayValidatesBeforeTransmission == \A r \in net : RequiredFieldsPresent(r.wire)

NoAutomaticRetry ==
    /\ [](\A s \in Slots : fetches[s] = accepted[s])
    /\ [][ \A c \in Callers : fetches'[c] # fetches[c] => lastSettle' = Null ]_vars

\* A call has failed and nothing is in transit for its slot.
FailedNotReissuedWitness ==
    \E s \in Slots :
        /\ SettledFor(s)
        /\ Settled.live
        /\ Settled.outcome.kind = "throw"
        /\ Outstanding(s) = {}
        /\ fetches[s] = 1 /\ accepted[s] = 1

RECURSIVE SumScores(_, _)
SumScores(platforms, ids) ==
    IF ids = {} THEN 0
    ELSE LET p == CHOOSE x \in ids : TRUE
         IN platforms[p].overall_score + SumScores(platforms, ids \ { p })

\* average_score (in tenths) within 0.5 of the mean of the overall_score values
AverageConsistent(body) ==
    LET n == Cardinality(DOMAIN body.platforms)
        d == body.average_score * n - 10 * SumScores(body.platforms, DOMAIN body.platforms)
    IN n > 0 /\ d <= 5 * n /\ -d <= 5 * n

\* top_platform has the maximum overall_score, the first such in registry order
TopIsArgMax(body) ==
    LET ps == body.platforms
        best(p) == \A q \in DOMAIN ps : ps[q].overall_score <= ps[p].overall_score
        first == CHOOSE i \in 1..Len(Platforms) :
                    /\ Platforms[i] \in DOMAIN ps /\ best(Platforms[i])
                    /\ \A j \in 1..(i - 1) : ~(Platforms[j] \in DOMAIN ps /\ best(Platforms[j]))
    IN body.top_platform = Platforms[first]

\* position is present exactly when appears is true
PositionIffAppears(body) ==
    \A p \in DOMAIN body.results :
        body.results[p].appears <=> ("position" \in DOMAIN body.results[p])

SatisfiesDataModel(endpoint, body) ==
    CASE endpoint = "/analyze" -> AverageConsistent(body) /\ TopIsArgMax(body)
      [] endpoint = "/test-platforms" -> PositionIffAppears(body)
      [] OTHER -> TRUE

\* C9: a 2xx completion whose payload breaks a data-model invariant makes
\* request throw a ContractError, and the slot of a mounted instance shows an error.
ContractErrorOnInvalidPayload ==
    (lastSettle # Null /\ Settled.resp.arrived /\ Settled.resp.status = 200
        /\ Settled.resp.parses
        /\ ~SatisfiesDataModel(Settled.endpoint, Settled.resp.body))
    => /\ Settled.outcome.kind = "throw"
       /\ Settled.outcome.name = "ContractError"
       /\ (Settled.caller \in Slots /\ Settled.live) => Err(Settled.caller) # Null

\* C10: the visible AnalysisResult has a consistent average_score and the
\* arg-max top_platform.
VisibleAnalysisConsistent ==
    a.analysisResult # Null
        => (AverageConsistent(a.analysisResult[1]) /\ TopIsArgMax(a.analysisResult[1]))

\* --------------------------------------- presentation of the test result

\* the results the tester renders a card for: platforms.map looks each of the
\* four platforms up in testResult.results and skips the ones it does not find
VisibleTestResults ==
    IF t.testResult = Null THEN {}
    ELSE { t.testResult[1].results[p] :
             p \in (DOMAIN t.testResult[1].results) \cap PlatformIds }

\* C11: every per-platform result visible in the gateway-wired tester has no
\* position when appears is false, and a position of at least 1 when appears
\* is true.
VisibleTestPositions ==
    \A r \in VisibleTestResults :
        /\ ~r.appears => "position" \notin DOMAIN r
        /\ r.appears => ("position" \in DOMAIN r /\ r.position >= 1)

\* ------------------------------------------------ submitting again

SlotStep(slot) ==
    \/ accepted'[slot] # accepted[slot]
    \/ (lastSettle' # Null /\ lastSettle'[1].caller = slot)

\* a step of one slot leaves the pending flag, the result, the error and the
\* requests in transit of every other slot as they were
OtherSlotsUnchanged ==
    \A s \in Slots : \A o \in Slots \ { s } :
        SlotStep(s) => /\ Pending(o)' = Pending(o)
                       /\ Result(o)' = Result(o)
                       /\ Err(o)' = Err(o)
                       /\ Outstanding(o)' = Outstanding(o)

\* C13 as stated: a step of one slot leaves every other slot unchanged, and
\* when requests of different slots are outstanding together none is lost:
\* each can still settle its slot.
SlotsOverlapFreely ==
    /\ [][ OtherSlotsUnchanged ]_vars
    /\ []( (\A s \in Slots : Outstanding(s) # {}) => (\A r \in net : r.live) )

\* C13: a step of one slot leaves every other slot unchanged; requests of
\* different slots can be in transit together, and then at most one slot has
\* a request that can still settle it.
SlotsIndependentWhileMounted ==
    /\ [][ OtherSlotsUnchanged ]_vars
    /\ []( \A r1 \in net : \A r2 \in net :
              (r1.caller \in Slots /\ r2.caller \in Slots /\ r1.live /\ r2.live)
                => r1.caller = r2.caller )

\* the analyzer's request completed while the tester's was in transit, and
\* the tester is still pending
OverlapWitness ==
    /\ SettledFor("analyze")
    /\ Outstanding("test") # {}
    /\ Pending("test")

\* ------------------------------------------------------------ no timeout

\* this step handles the completion of the request the slot is waiting for
OwnCompletion(slot) ==
    /\ lastSettle' # Null
    /\ lastSettle'[1].caller = slot
    /\ lastSettle'[1].live
    /\ lastSettle'[1].id = lastSubmit[slot]

\* C14 as stated: a pending slot stops being pending only in the step that
\* handles the completion of its own request.
PendingEndsOnlyByCompletion ==
    [][ \A s \in Slots : (Pending(s) /\ ~Pending(s)') => OwnCompletion(s) ]_vars

\* C14: a pending slot stops being pending only in the step that handles the
\* completion of its own request, or in the step that unmounts its component;
\* input edits and platform selections leave it pending.
PendingEndsByCompletionOrUnmount ==
    [][ \A s \in Slots :
          (Pending(s) /\ ~Pending(s)') => (OwnCompletion(s) \/ ~Mounted(s)') ]_vars

\* a slot still pending, its request in transit, after its input was edited
\* to blank
PendingAfterEditWitness ==
    \E s \in Slots :
        /\ Pending(s) /\ Mounted(s) /\ BlankInput(s)
        /\ \E r \in Outstanding(s) : r.live

\* ------------------------------------------- presentation of the analysis

\* selectedPlatform && analysisResult.platforms[selectedPlatform], inside the
\* section rendered when analysisResult is not null
DetailShown ==
    /\ a.analysisResult # Null
    /\ a.selectedPlatform \in DOMAIN a.analysisResult[1].platforms

\* the recommendation cards of the detail section, top to bottom:
\* recommendations.map renders one card per entry, in the order of the array
PresentedRecommendations ==
    IF DetailShown
    THEN Some(a.analysisResult[1].platforms[a.selectedPlatform].recommendations)
    ELSE Null

PriorityOrder == << "high", "medium", "low" >>

PriorityRank(priority) == CHOOSE i \in DOMAIN PriorityOrder : PriorityOrder[i] = priority

CountOf(seq, x) == Cardinality({ i \in DOMAIN seq : seq[i] = x })

\* C15: the recommendations presented for the selected platform are those the
\* backend sent for it, each as often as it was sent, with every high before
\* every medium before every low.
RecommendationsGroupedByPriority ==
    DetailShown =>
        LET shown == PresentedRecommendations[1]
            sent == a.analysisResult[1].platforms[a.selectedPlatform].recommendations
        IN /\ Len(shown) = Len(sent)
           /\ \A i \in DOMAIN sent : CountOf(shown, sent[i]) = CountOf(sent, sent[i])
           /\ \A i \in DOMAIN shown : \A j \in DOMAIN shown :
                 i < j => PriorityRank(shown[i].priority) <= PriorityRank(shown[j].priority)

\* C16: a step that changes the selected platform of the mounted analyzer
\* leaves its error, result and pending flag and the transport as they were;
\* a selected platform the result does not have (the default chatgpt included)
\* gets no detail section, and one with no recommendations gets an empty
\* sequence of recommendations.
SelectionNeverFails ==
    /\ [][ (a.selectedPlatform' # a.selectedPlatform /\ Mounted("analyze")')
             => /\ a.error' = a.error
                /\ a.analysisResult' = a.analysisResult
                /\ a.isAnalyzing' = a.isAnalyzing
                /\ net' = net ]_vars
    /\ []( (a.analysisResult # Null
              /\ a.selectedPlatform \notin DOMAIN a.analysisResult[1].platforms)
            => PresentedRecommendations = Null )
    /\ []( (a.analysisResult # Null
              /\ a.selectedPlatform \in DOMAIN a.analysisResult[1].platforms
              /\ a.analysisResult[1].platforms[a.selectedPlatform].recommendations = <<>>)
            => PresentedRecommendations = Some(<<>>) )

\* claude, which came without recommendations, was selected: its detail
\* section shows no recommendation and no error is shown
EmptySelectionWitness ==
    /\ Mounted("analyze")
    /\ a.selectedPlatform = "claude"
    /\ PresentedRecommendations = Some(<<>>)
    /\ a.error = Null

\* ------------------------------------------------- the platform registry

\* the platform ids a transmitted request names
NamedPlatforms(wire) ==
    CASE wire.endpoint = "/analyze" ->
            { wire.body.target_platforms[i] : i \in DOMAIN wire.body.target_platforms }
      [] wire.endpoint = "/optimize" -> { wire.body.target_platform } \ { "" }
      [] wire.endpoint = "/test-platforms" ->
            { wire.body.platforms[i] : i \in DOMAIN wire.body.platforms }
      [] OTHER -> {}

\* C17: no request naming a platform id outside chatgpt, claude, perplexity,
\* google_ai is ever transmitted.
GatewayRejectsUnknownPlatforms ==
    \A r \in net : NamedPlatforms(r.wire) \subseteq PlatformIds

\* ------------------------------------------------------ citation rate

CitedCount(rs) == Cardinality({ i \in DOMAIN rs : rs[i].cited })

\* C18: the citation rate is 0 while there is no result array, and for a
\* result array it is the integer nearest to 100 * cited / total: an integer
\* between 0 and 100 at most one half away from the exact percentage, the
\* upper one when two are.
CitationRateIsRoundedShare ==
    IF sim.results = Null
    THEN CitationRate(sim.results) = 0
    ELSE LET rs == sim.results[1]
             rate == CitationRate(sim.results)
             d == rate * Len(rs) - 100 * CitedCount(rs)
         IN /\ rate \in 0..100
            /\ 2 * d <= Len(rs)
            /\ -2 * d < Len(rs)

\* two of three results cited: 66.67 per cent, shown as 67
RoundedUpWitness ==
    /\ sim.results # Null
    /\ Len(sim.results[1]) = 3
    /\ CitedCount(sim.results[1]) = 2
    /\ CitationRate(sim.results) = 67
    /\ sim.query # <<>>

\* ------------------------------------------------------ mean position

\* the results that count for the mean position: cited, with a position
RankedIndices(rs) == { i \in DOMAIN rs : rs[i].cited /\ "position" \in DOMAIN rs[i] }

RECURSIVE PositionTotal(_, _)
PositionTotal(rs, idx) ==
    IF idx = {} THEN 0
    ELSE LET i == CHOOSE x \in idx : TRUE
         IN rs[i].position + PositionTotal(rs, idx \ { i })

\* C20: when results are shown, the mean position is 'N/A' if no result is
\* cited with a position, and otherwise the tenth nearest to the sum of the
\* positions of the cited results that have one divided by their number;
\* results without a position or not cited count for neither.
MeanPositionOverRanked ==
    sim.results # Null =>
        LET rs == sim.results[1]
            idx == RankedIndices(rs)
            n == Cardinality(idx)
            shown == AvgPosition(rs)
        IN IF n = 0
           THEN shown = Null
           ELSE /\ shown # Null
                /\ LET d == shown[1] * n - 10 * PositionTotal(rs, idx)
                   IN 2 * d <= n /\ -2 * d < n

\* a cited result without a position and an uncited result with one beside
\* two cited results at positions 1 and 2: the mean shown is 1.5
MeanSkipsUnrankedWitness ==
    /\ sim.results # Null
    /\ sim.query # <<>>
    /\ LET rs == sim.results[1]
       IN /\ \E i \in DOMAIN rs : rs[i].cited /\ "position" \notin DOMAIN rs[i]
          /\ Cardinality(RankedIndices(rs)) = 2
          /\ PositionTotal(rs, RankedIndices(rs)) = 3
          /\ AvgPosition(rs) = Some(15)

\* no result cited with a position: the card shows 'N/A'
MeanNotAvailableReached ==
    /\ sim.results # Null
    /\ RankedIndices(sim.results[1]) = {}
    /\ \E i \in DOMAIN sim.results[1] : sim.results[1][i].cited
    /\ AvgPosition(sim.results[1]) = Null

\* ------------------------------------------------------- mean latency

RECURSIVE ResponseTotal(_, _)
ResponseTotal(rs, idx) ==
    IF idx = {} THEN 0
    ELSE LET i == CHOOSE x \in idx : TRUE
         IN rs[i].responseTime + ResponseTotal(rs, idx \ { i })

\* C21: whenever the statistics are shown the result array is non-empty,
\* every result has a responseTime, and the mean latency shown is the tenth
\* nearest to the sum of all responseTime values divided by the number of
\* results.
MeanLatencyDefined ==
    sim.results # Null =>
        LET rs == sim.results[1]
            n == Len(rs)
        IN /\ n > 0
           /\ \A i \in DOMAIN rs : "responseTime" \in DOMAIN rs[i]
           /\ LET d == AvgResponseTime(rs) * n - ResponseTotal(rs, DOMAIN rs)
              IN 2 * d <= n /\ -2 * d <= n

\* the results of a simulated test are shown: 5.7 s over four platforms,
\* shown as 1.4 s
MeanLatencyWitness ==
    /\ root = RootSim
    /\ sim.results # Null
    /\ ~sim.testing
    /\ Len(sim.results[1]) = 4
    /\ ResponseTotal(sim.results[1], DOMAIN sim.results[1]) = 57
    /\ AvgResponseTime(sim.results[1]) = 14

\* ------------------------------------------- what the gateway transmits

\* the latest gateway call is of this method
LastCallIs(op) == lastCall # Null /\ lastCall[1].op = op

\* the fetch call of the latest gateway call, while it is in transit
LastCallRequests == { r \in net : lastCall # Null /\ r.id = lastCall[1].id }

\* this step is a call of the method; it makes exactly one fetch call
CallTransmitsOnce(op) ==
    (lastCall' # lastCall /\ lastCall' # Null /\ lastCall'[1].op = op)
        => /\ fetches'[Direct] = fetches[Direct] + 1
           /\ \E r \in net' : r.id = lastCall'[1].id /\ r \notin net
                                /\ net' = net \cup { r }

\* C22: a call of predictROI makes one fetch call, a POST to /predict-roi
\* whose five fields are the arguments, an omitted monthlyTraffic,
\* conversionRate or averageOrderValue replaced by 10000, 0.02 or 2000 and a
\* supplied one, 0 included, sent as it is.
PredictROITransmitsArguments ==
    /\ [][ CallTransmitsOnce("predictROI") ]_vars
    /\ []( LastCallIs("predictROI") =>
             \A r \in LastCallRequests :
                LET args == lastCall[1].args
                IN /\ r.wire.endpoint = "/predict-roi"
                   /\ r.wire.method = "POST"
                   /\ r.wire.body.current_score = args.currentScore
                   /\ r.wire.body.optimized_score = args.optimizedScore
                   /\ r.wire.body.monthly_traffic =
                        (IF args.monthlyTraffic = Null THEN DefaultMonthlyTraffic
                         ELSE args.monthlyTraffic[1])
                   /\ r.wire.body.conversion_rate =
                        (IF args.conversionRate = Null THEN DefaultConversionRate
                         ELSE args.conversionRate[1])
                   /\ r.wire.body.average_order_value =
                        (IF args.averageOrderValue = Null THEN DefaultAverageOrderValue
                         ELSE args.averageOrderValue[1]) )

\* predictROI(50, 80, 0) is in transit: monthly_traffic 0, the other two at
\* their defaults
PredictROIZeroWitness ==
    /\ LastCallIs("predictROI")
    /\ lastCall[1].args.monthlyTraffic = Some(0)
    /\ lastCall[1].args.conversionRate = Null
    /\ \E r \in LastCallRequests :
          /\ r.wire.body.monthly_traffic = 0
          /\ r.wire.body.conversion_rate = DefaultConversionRate

\* C23: a call of analyzeContent without target_platforms transmits chatgpt,
\* claude, perplexity, google_ai in this order, and a call with a list
\* transmits that list.
AnalyzeTransmitsPlatforms ==
    /\ [][ CallTransmitsOnce("analyzeContent") ]_vars
    /\ []( LastCallIs("analyzeContent") =>
             \A r \in LastCallRequests :
                LET args == lastCall[1].args
                IN /\ r.wire.endpoint = "/analyze"
                   /\ r.wire.body.content = args.content
                   /\ r.wire.body.target_platforms =
                        (IF args.target_platforms = Null
                         THEN << "chatgpt", "claude", "perplexity", "google_ai" >>
                         ELSE args.target_platforms[1]) )

\* analyzeContent({content, target_platforms: ['claude']}) is in transit with
\* the one platform
AnalyzeSuppliedListWitness ==
    /\ LastCallIs("analyzeContent")
    /\ lastCall[1].args.target_platforms = Some(<< "claude" >>)
    /\ \E r \in LastCallRequests : r.wire.body.target_platforms = << "claude" >>

\* analyzeContent({content}) is in transit with the four platforms
AnalyzeDefaultListReached ==
    /\ LastCallIs("analyzeContent")
    /\ lastCall[1].args.target_platforms = Null
    /\ \E r \in LastCallRequests : Len(r.wire.body.target_platforms) = 4

\* C24: a call of optimizeContent transmits optimization_level balanced when
\* none is supplied and maintain_voice true when none is supplied, and a
\* supplied level or maintain_voice, false included, as it is.
OptimizeTransmitsOptions ==
    /\ [][ CallTransmitsOnce("optimizeContent") ]_vars
    /\ []( LastCallIs("optimizeContent") =>
             \A r \in LastCallRequests :
                LET args == lastCall[1].args
                IN /\ r.wire.endpoint = "/optimize"
                   /\ r.wire.body.optimization_level =
                        (IF args.optimization_level = Null THEN "balanced"
                         ELSE args.optimization_level[1])
                   /\ r.wire.body.maintain_voice =
                        (IF args.maintain_voice = Null THEN TRUE
                         ELSE args.maintain_voice[1]) )

\* optimizeContent with maintain_voice false and no level is in transit:
\* balanced, false
OptimizeExplicitFalseWitness ==
    /\ LastCallIs("optimizeContent")
    /\ lastCall[1].args.maintain_voice = Some(FALSE)
    /\ lastCall[1].args.optimization_level = Null
    /\ \E r \in LastCallRequests :
          /\ r.wire.body.maintain_voice = FALSE
          /\ r.wire.body.optimization_level = "balanced"

\* ------------------------------------------------------ the pending flag

\* C25 as stated: the pending flag of a slot is set exactly when a request of
\* the slot is outstanding.
PendingIffOutstanding ==
    \A s \in Slots : Pending(s) <=> Outstanding(s) # {}

\* C25: the pending flag of a slot is set exactly when a request issued by
\* the mounted instance of the slot is outstanding.
PendingIffLiveOutstanding ==
    \A s \in Slots : Pending(s) <=> (\E r \in Outstanding(s) : r.live)

\* the tool was remounted while its request was in transit: not pending, the
\* old request still outstanding
RemountedIdleWitness ==
    \E s \in Slots :
        /\ Mounted(s) /\ ~Pending(s)
        /\ \E r \in Outstanding(s) : ~r.live
        /\ accepted[s] = 1

\* C26: a pending slot shows no error; an accepted submit leaves the slot
\* without an error; and an error appears only in a step that handles the
\* failure of a request of the slot or that finds the input blank.
PendingExcludesError ==
    /\ []( \A s \in Slots : Pending(s) => Err(s) = Null )
    /\ [][ \A s \in Slots : accepted'[s] # accepted[s] => Err(s)' = Null ]_vars
    /\ [][ \A s \in Slots :
             (Err(s)' # Err(s) /\ Err(s)' # Null)
               => \/ /\ SettlesNow(s, "throw")
                     /\ lastSettle'[1].live
                     /\ Err(s)' = Some(lastSettle'[1].outcome.message)
                  \/ /\ BlankInput(s)
                     /\ Err(s)' = Some(ValidationMessage(s)) ]_vars

\* a slot whose request failed was submitted again: pending, the error gone,
\* no result
ResubmittedAfterFailureWitness ==
    \E s \in Slots :
        /\ Pending(s) /\ Err(s) = Null /\ Result(s) = Null
        /\ accepted[s] = 2 /\ fetches[s] = 2
        /\ Cardinality(Outstanding(s)) = 1
        /\ activeTab = "content-analyzer" /\ issued = 2

\* ------------------------------------------------------------- settling

\* the slot shows the outcome of the completion just handled: not pending,
\* the payload as its result or the failure's message as its error
ShowsOutcome(slot, settled) ==
    /\ ~Pending(slot)
    /\ settled.outcome.kind = "return"
         => (Result(slot) = Some(settled.resp.body) /\ shownReq[slot] = settled.id)
    /\ settled.outcome.kind = "throw"
         => Err(slot) = Some(settled.outcome.message)

StaleCompletionInvisible ==
    (lastSettle' # Null /\ lastSettle'[1].caller \in Slots /\ ~lastSettle'[1].live)
        => (a' = a /\ t' = t)

\* C28: a change of the active tab leaves both tools in their initial state
\* (not pending, no result, no error) and no request able to reach a slot,
\* and the completion of a request submitted before the change shows nowhere.
TabSwitchResets ==
    /\ [][ activeTab' # activeTab
             => /\ a' = AnalyzerInit
                /\ t' = TesterInit
                /\ \A r \in net' : r.caller \in Slots => ~r.live ]_vars
    /\ [][ StaleCompletionInvisible ]_vars

\* back on the analyzer tab, the request submitted before the tab was left
\* has resolved with a payload, and the analyzer shows no result
SwitchedBackWitness ==
    /\ Mounted("analyze")
    /\ SettledFor("analyze") /\ ~Settled.live
    /\ Settled.outcome.kind = "return"
    /\ a = AnalyzerInit

\* C29: a submit is accepted only with a session and after loading; without
\* a session or while loading both tools are in their initial state and no
\* request can reach a slot; and after a sign-out no request in transit can
\* reach a slot, so its result shows nowhere.
AuthorizationGate ==
    /\ [][ accepted' # accepted => (session # Null /\ ~loading) ]_vars
    /\ []( (session = Null \/ loading)
             => /\ \A s \in Slots : ~Mounted(s)
                /\ a = AnalyzerInit /\ t = TesterInit
                /\ \A r \in net : r.caller \in Slots => ~r.live )
    /\ [][ (lastSettle' # Null /\ lastSettle'[1].caller \in Slots /\ session = Null)
             => (~lastSettle'[1].live /\ a' = a /\ t' = t) ]_vars

\* signed out while a request was in transit; the request has resolved with
\* a payload and nothing shows it
SignedOutWitness ==
    /\ session = Null /\ ~loading
    /\ lastSettle # Null /\ Settled.caller \in Slots
    /\ Settled.outcome.kind = "return"
    /\ a.analysisResult = Null /\ t.testResult = Null

\* ------------------------------------------------------ the mock session

\* C30: once the storage check has run, there is a user in memory exactly
\* when sessionStorage holds one, and the stored text parses to the user in
\* memory; loading the page again leaves sessionStorage as it is and the
\* storage check then restores the stored user, or none when none is stored;
\* and the dashboard is shown exactly when loading is over and there is a
\* user.
MockSessionConsistent ==
    /\ []( ~authLoading =>
             /\ user # Null <=> storage # Null
             /\ user # Null => JsonParse(storage[1]) = user[1] )
    /\ [][ (~authLoading /\ authLoading') => (storage' = storage /\ user' = Null) ]_vars
    /\ [][ (authLoading /\ ~authLoading')
             => /\ storage' = storage
                /\ storage = Null => user' = Null
                /\ storage # Null => user' = Some(JsonParse(storage[1])) ]_vars
    /\ []( Screen = "dashboard" <=> (~authLoading /\ user # Null) )

\* the page was loaded again after a sign-up and the storage check has
\* restored the user, with the company and the plan of the sign-up
RestoredAfterRemountWitness ==
    /\ root = RootMock
    /\ restored /\ ~authLoading
    /\ user # Null
    /\ user[1].plan = "trial" /\ user[1].company = "Acme"
    /\ user[1].name = << "ann" >>
    /\ Screen = "dashboard"

====
